---- MODULE Spec2Model ----
(***************************************************************************)
(* Model of the scan orchestrator of api-auto-doc:                         *)
(*   backend/app/services/scan_service.py  (ScanService)                   *)
(*   backend/app/services/scanner.py       (RepositoryScanner)             *)
(*   backend/app/core/database.py          (AsyncSessionLocal)             *)
(*   backend/app/models/api_endpoint.py    (APIEndpoint)                   *)
(*                                                                         *)
(* One process_repository run at a time is modelled, split at its await    *)
(* points.  The database is the committed table of endpoint rows plus the  *)
(* unit of work of the run's session (autoflush is off, so rows added with *)
(* db.add are invisible to SELECTs until the commit flushes them).         *)
(***************************************************************************)
EXTENDS Integers, Sequences, FiniteSets, TLC

\* ------------------------------------------------------------------ bounds
MaxFiles == 2       \* files of the repository tree (pipeline specification)
MaxParFiles == 11   \* candidate files handed to _process_files_parallel (SpecPar)
MaxRuns == 2        \* process_repository runs of one behaviour
MaxFilterFiles == 3 \* files of the tree handed to the candidate filter (SpecFilter)

\* ------------------------------------------------------- program constants
BATCH_SIZE == 10
MAX_FILE_SIZE == 100000
MIN_FILE_SIZE == 50
PATH_COLUMN_LENGTH == 500

SUPPORTED_LANGUAGES == {"python", "javascript", "typescript", "go", "java", "csharp"}

PENDING == "pending"
SCANNING == "scanning"
COMPLETED == "completed"
FAILED == "failed"

Min(a, b) == IF a < b THEN a ELSE b

\* ------------------------------------------------------------- input data
\* A route literal is the sequence of its pieces: "/" for one slash, a word
\* for a run of other characters.  "/users" is <<"/", "users">>, "users/" is
\* <<"users", "/">>, the root is <<"/">>.
UsersPath == <<"/", "users">>
ItemsPath == <<"/", "items">>
GonePath == <<"/", "gone">>
\* A route literal longer than the path column: "LONG" is a word of
\* PATH_COLUMN_LENGTH characters.
LongPath == <<"/", "LONG">>
Paths == {UsersPath, ItemsPath, LongPath}

\* len() of one piece.
PieceLength(w) == IF w = "LONG" THEN PATH_COLUMN_LENGTH ELSE Len(w)

\* len(path) as the column sees it.
RECURSIVE PathLength(_)
PathLength(p) == IF p = <<>> THEN 0 ELSE PieceLength(Head(p)) + PathLength(Tail(p))

\* str.upper() on the verb spellings that occur in the inputs.
Upper(m) ==
    CASE m \in {"get", "Get", "GET"} -> "GET"
      [] m \in {"post", "Post", "POST"} -> "POST"
      [] m \in {"put", "Put", "PUT"} -> "PUT"
      [] m \in {"patch", "Patch", "PATCH"} -> "PATCH"
      [] m \in {"delete", "Delete", "DELETE"} -> "DELETE"
      [] m \in {"head", "Head", "HEAD"} -> "HEAD"
      [] m \in {"options", "Options", "OPTIONS"} -> "OPTIONS"
      [] m \in {"trace", "Trace", "TRACE"} -> "TRACE"
      [] OTHER -> m

\* The words of the inputs that contain "auth" or "user" in lower case.
AuthWords == {"users", "auth"}

\* "auth" in path.lower() or "user" in path.lower()
HasAuthWord(p) == \E i \in 1..Len(p) : p[i] \in AuthWords

\* One route declaration of a file's content, in source order.  style is the
\* regular expression of _extract_endpoints_regex that matches it.
Decl(style, method, path) == [style |-> style, method |-> method, path |-> path]

\* Files a working tree may hold.  ftype "broken_link" is a directory entry
\* whose stat() raises; readable = FALSE makes get_file_content raise.
PyUsers ==
    [ftype |-> "file", language |-> "python", size |-> 200, readable |-> TRUE,
     decls |-> <<Decl("decorator", "get", UsersPath)>>]
JsMixed ==
    [ftype |-> "file", language |-> "javascript", size |-> 300, readable |-> TRUE,
     decls |-> <<Decl("nest", "Get", UsersPath), Decl("express", "get", UsersPath),
                 Decl("express", "post", ItemsPath)>>]
PyLong ==
    [ftype |-> "file", language |-> "python", size |-> 700, readable |-> TRUE,
     decls |-> <<Decl("decorator", "get", LongPath)>>]
BrokenLink ==
    [ftype |-> "broken_link", language |-> "unknown", size |-> 0, readable |-> FALSE,
     decls |-> <<>>]
Unreadable ==
    [ftype |-> "file", language |-> "python", size |-> 200, readable |-> FALSE,
     decls |-> <<Decl("decorator", "get", ItemsPath)>>]
FileKinds == {PyUsers, JsMixed, PyLong, BrokenLink, Unreadable}

\* Text of a content that declares no route.
Text(t) == [style |-> "text", method |-> "", path |-> <<t>>]

\* Files for the candidate filter: sizes at and beyond both thresholds with a
\* route declaration, source without any route, a document with a route in it.
EmptyFile ==
    [ftype |-> "file", language |-> "python", size |-> 0, readable |-> TRUE,
     decls |-> <<>>]
TinyRoute ==
    [ftype |-> "file", language |-> "python", size |-> MIN_FILE_SIZE - 1, readable |-> TRUE,
     decls |-> <<Decl("decorator", "get", UsersPath)>>]
MinRoute ==
    [ftype |-> "file", language |-> "python", size |-> MIN_FILE_SIZE, readable |-> TRUE,
     decls |-> <<Decl("decorator", "get", ItemsPath)>>]
MaxRoute ==
    [ftype |-> "file", language |-> "go", size |-> MAX_FILE_SIZE, readable |-> TRUE,
     decls |-> <<Decl("go", "GET", UsersPath)>>]
HugeRoute ==
    [ftype |-> "file", language |-> "javascript", size |-> 500000, readable |-> TRUE,
     decls |-> <<Decl("express", "get", ItemsPath)>>]
NoRoutes ==
    [ftype |-> "file", language |-> "python", size |-> 200, readable |-> TRUE,
     decls |-> <<Text("def helper(")>>]
Readme ==
    [ftype |-> "file", language |-> "markdown", size |-> 200, readable |-> TRUE,
     decls |-> <<Decl("decorator", "get", UsersPath)>>]
FilterKinds == {EmptyFile, TinyRoute, MinRoute, MaxRoute, HugeRoute, NoRoutes, Readme}

\* Sequences over S of length at most n.
SeqUpTo(S, n) == UNION {[1..k -> S] : k \in 0..n}

\* Variant of scan_raises: a missing root is walked as an empty directory.
scan_raises_lenient(rootExists, t) ==
    \E i \in 1..Len(t) : t[i].ftype = "broken_link"

\* ------------------------------------------------- RepositoryScanner (pure)
\* scan_repository: raises when the root is missing, and when stat() of any
\* walked entry raises (scanner.py:100 is outside every try).
scan_raises(rootExists, t) ==
    \/ ~rootExists
    \/ \E i \in 1..Len(t) : t[i].ftype = "broken_link"

\* scan_repository's result: one file_info per walked entry, in walk order.
\* The repository-relative path of entry i is represented by i.
scan_repository(t) ==
    [i \in 1..Len(t) |-> [path |-> i, language |-> t[i].language, size |-> t[i].size]]

\* Variant of size_gate: only the upper threshold is tested.
size_gate_max_only(size) == ~(size > MAX_FILE_SIZE)

\* ------------------------------------------------------ ScanService (pure)
\* Lines 213-215 of _get_code_files: the file is not skipped for its size.
size_gate(size) == ~(size < MIN_FILE_SIZE \/ size > MAX_FILE_SIZE)

\* Lines 209-215: the tests a file passes before its content is loaded.
reaches_load(f) ==
    /\ f.language \in SUPPORTED_LANGUAGES
    /\ size_gate(f.size)

\* The paths get_file_content is called for by _get_code_files (line 219).
loaded_paths(files) == {files[i].path : i \in {j \in 1..Len(files) : reaches_load(files[j])}}

\* API_PATTERNS (lines 33-56) on one piece of content: every route
\* declaration the extraction knows matches one of the patterns, and so does
\* the text "APIRouter(" or "@Controller(".
prefilter_hit(d) ==
    \/ d.style \in {"decorator", "route", "express", "nest", "go"}
    \/ d.style = "text" /\ d.path \in {<<"APIRouter(">>, <<"@Controller(">>}

\* _is_likely_api_file (lines 259-264): some pattern is found in the content.
is_likely_api_file(content) == \E i \in 1..Len(content) : prefilter_hit(content[i])

\* The tests of the loop body of _get_code_files; get_file_content raising
\* is caught there and skips the file.
is_code_file(f, t) ==
    /\ reaches_load(f)
    /\ t[f.path].readable

with_content(f, t) ==
    [path |-> f.path, language |-> f.language, size |-> f.size,
     content |-> t[f.path].decls]

RECURSIVE get_code_files(_, _)
get_code_files(files, t) ==
    IF files = <<>> THEN <<>>
    ELSE LET f == Head(files)
             rest == get_code_files(Tail(files), t)
         IN IF is_code_file(f, t) THEN <<with_content(f, t)>> \o rest ELSE rest

create_endpoint_doc(path, method, file_path, framework) ==
    [path |-> path,
     method |-> method,
     summary |-> <<"regex", method, path>>,
     description |-> <<"regex", file_path>>,
     tags |-> <<framework>>,
     auth_required |-> HasAuthWord(path),
     file_path |-> file_path]

\* The regular expression named style of _extract_endpoints_regex matches the
\* declaration d: the verbs it lists (with re.IGNORECASE for the decorator and
\* Express patterns), and a path of at least one character except for NestJS.
regex_match(style, d) ==
    /\ d.style = style
    /\ CASE style \in {"decorator", "express"} ->
                Upper(d.method) \in {"GET", "POST", "PUT", "DELETE", "PATCH"} /\ d.path # <<>>
          [] style = "route" -> d.path # <<>>
          [] style = "nest" -> d.method \in {"Get", "Post", "Put", "Delete", "Patch"}
          [] style = "go" ->
                d.method \in {"GET", "POST", "PUT", "DELETE", "PATCH"} /\ d.path # <<>>
          [] OTHER -> FALSE

\* The matches of one regular expression, in source order, as endpoint docs.
RECURSIVE matches(_, _, _, _)
matches(decls, style, file_path, framework) ==
    IF decls = <<>> THEN <<>>
    ELSE LET d == Head(decls)
             rest == matches(Tail(decls), style, file_path, framework)
             m == IF style = "route" THEN "GET" ELSE Upper(d.method)
             path == IF style = "nest" /\ d.path = <<>> THEN <<"/">> ELSE d.path
         IN IF regex_match(style, d)
            THEN <<create_endpoint_doc(path, m, file_path, framework)>> \o rest
            ELSE rest

extract_endpoints_regex(content, file_info) ==
    CASE file_info.language = "python" ->
            matches(content, "decorator", file_info.path, "python")
            \o matches(content, "route", file_info.path, "python")
      [] file_info.language \in {"javascript", "typescript"} ->
            matches(content, "express", file_info.path, "express")
            \o matches(content, "nest", file_info.path, "nestjs")
      [] file_info.language = "go" ->
            matches(content, "go", file_info.path, "go")
      [] OTHER -> <<>>

\* The route declarations of a content, without its other text.
RouteDecls(content) == SelectSeq(content, LAMBDA d : d.style # "text")

\* A document generate_doc may return for a file: the model's answer carries
\* its own summary, description and tags.
ai_doc(file_info) ==
    LET d == Head(RouteDecls(file_info.content))
    IN [path |-> d.path,
        method |-> Upper(d.method),
        summary |-> <<"ai", Upper(d.method), d.path>>,
        description |-> <<"ai", file_info.path>>,
        tags |-> <<"ai">>,
        auth_required |-> FALSE,
        file_path |-> file_info.path]

\* What the call of generate_doc at line 310 can do: "off" when no model is
\* configured (the call is not made), "raised", "none" (it returned None),
\* "nopath" (a document without a path), "doc" (a document with a path).
AiFailed == {"raised", "none", "nopath"}
ai_outcomes(file_info, ai) ==
    IF ~ai THEN {"off"}
    ELSE AiFailed \cup (IF RouteDecls(file_info.content) # <<>> THEN {"doc"} ELSE {})

\* Variant of process_single_file: an enrichment call that raises ends the
\* task with the exception, one that returns nothing ends it with no endpoint.
process_single_file_ai_fatal(file_info, outcome) ==
    CASE outcome = "doc" -> [st |-> "ok", eps |-> <<ai_doc(file_info)>>]
      [] outcome = "raised" -> [st |-> "exc", eps |-> <<>>]
      [] outcome \in {"none", "nopath"} -> [st |-> "ok", eps |-> <<>>]
      [] OTHER -> [st |-> "ok", eps |-> extract_endpoints_regex(file_info.content, file_info)]

\* _process_single_file for one outcome of the enrichment call: [doc_result]
\* when the AI answers with a path, the regex extraction otherwise (the
\* except of line 317 swallows what generate_doc raises).
process_single_file(file_info, outcome) ==
    IF outcome = "doc"
    THEN [st |-> "ok", eps |-> <<ai_doc(file_info)>>]
    ELSE [st |-> "ok", eps |-> extract_endpoints_regex(file_info.content, file_info)]

\* ----------------------------------------- parsers/base_parser.py (pure)
\* HTTPMethod: the members of the enumeration.
HTTPMethod == {"GET", "POST", "PUT", "PATCH", "DELETE", "HEAD", "OPTIONS"}

\* One route declaration of a source file as the framework parsers see it:
\* methods is the list of verb strings of a methods=[...] / @api_view([...])
\* list or the names of the handler methods of a class, base the class-level
\* prefix of a Spring controller, or the prefix of the router group
\* (api := r.Group("/api")) or mount (app.use('/api', router)) the route is
\* registered under.
Route(style, method, methods, base, path) ==
    [style |-> style, method |-> method, methods |-> methods, base |-> base,
     path |-> path]

\* "indicator in content" for one piece of content: a text is found in
\* itself, a declaration contains the spelling of its decorator or call.
item_contains(d, indicator) ==
    \/ d.style = "text" /\ d.path = <<indicator>>
    \/ d.style = "route" /\ indicator = "@app.route"
    \/ d.style = "api_view" /\ indicator = "@api_view"
    \/ d.style = "class_view" /\ indicator = "ViewSet"
    \/ d.style \in {"spring_mapping", "spring_simple"}
          /\ d.method = "Get" /\ indicator = "@GetMapping"
    \/ d.style \in {"spring_mapping", "spring_simple"}
          /\ d.method = "Post" /\ indicator = "@PostMapping"
    \/ d.style = "request_mapping" /\ indicator = "@RequestMapping"
    \/ d.style = "go" /\ d.method = "GET" /\ indicator = ".GET("
    \/ d.style = "go" /\ d.method = "POST" /\ indicator = ".POST("

\* BaseParser.detect_framework: some indicator of the parser is in the content.
parser_detect_framework(parser, content) ==
    \E indicator \in parser.FRAMEWORK_INDICATORS :
        \E i \in 1..Len(content) : item_contains(content[i], indicator)

\* BaseParser.normalize_path on a path given by its pieces.
normalize_path(path) ==
    LET p1 == IF path = <<>> \/ Head(path) # "/" THEN <<"/">> \o path ELSE path
    IN IF p1 # <<"/">> /\ p1[Len(p1)] = "/" THEN SubSeq(p1, 1, Len(p1) - 1) ELSE p1

\* The parser classes of the package, as their class attributes.
ExpressParser ==
    [FRAMEWORK_NAME |-> "express",
     SUPPORTED_EXTENSIONS |-> {".js", ".ts", ".mjs"},
     FRAMEWORK_INDICATORS |-> {"express()", "require('express')", "require(\"express\")",
                               "from 'express'", "from \"express\"", "express.Router()"}]
FlaskParser ==
    [FRAMEWORK_NAME |-> "flask",
     SUPPORTED_EXTENSIONS |-> {".py"},
     FRAMEWORK_INDICATORS |-> {"from flask import", "from flask_restful import",
                               "Flask(__name__)", "@app.route", "@blueprint.route",
                               "flask.Blueprint"}]
DjangoRESTParser ==
    [FRAMEWORK_NAME |-> "django_rest",
     SUPPORTED_EXTENSIONS |-> {".py"},
     FRAMEWORK_INDICATORS |-> {"from rest_framework", "rest_framework.views",
                               "rest_framework.viewsets", "rest_framework.decorators",
                               "@api_view", "APIView", "ViewSet", "ModelViewSet"}]
SpringBootParser ==
    [FRAMEWORK_NAME |-> "spring_boot",
     SUPPORTED_EXTENSIONS |-> {".java", ".kt"},
     FRAMEWORK_INDICATORS |-> {"@RestController", "@Controller", "@RequestMapping",
                               "@GetMapping", "@PostMapping", "@PutMapping",
                               "@DeleteMapping", "@PatchMapping",
                               "org.springframework.web", "import org.springframework"}]
GoGinParser ==
    [FRAMEWORK_NAME |-> "go_gin",
     SUPPORTED_EXTENSIONS |-> {".go"},
     FRAMEWORK_INDICATORS |-> {"github.com/gin-gonic/gin", "github.com/labstack/echo",
                               "gin.Default()", "gin.New()", "echo.New()",
                               ".GET(", ".POST(", ".PUT(", ".DELETE("}]
ParserClasses == {ExpressParser, FlaskParser, DjangoRESTParser, SpringBootParser, GoGinParser}

\* The n-th parser object created: an instance of class.
Instance(class, n) ==
    [FRAMEWORK_NAME |-> class.FRAMEWORK_NAME,
     SUPPORTED_EXTENSIONS |-> class.SUPPORTED_EXTENSIONS,
     FRAMEWORK_INDICATORS |-> class.FRAMEWORK_INDICATORS,
     inst |-> n]

\* Positions of the entries of the dictionary reg stored under name.
Slot(reg, name) == {i \in 1..Len(reg) : reg[i].FRAMEWORK_NAME = name}

\* Variant of register: a name that is already registered keeps its parser.
register_keep_first(reg, parser) ==
    IF Slot(reg, parser.FRAMEWORK_NAME) # {} THEN reg ELSE Append(reg, parser)

\* ParserRegistry.register: cls._parsers[parser.FRAMEWORK_NAME] = parser.  The
\* dictionary is the sequence of its values in insertion order; assigning to
\* a key it holds replaces the value in place.
register(reg, parser) ==
    IF Slot(reg, parser.FRAMEWORK_NAME) # {}
    THEN [i \in 1..Len(reg) |->
             IF reg[i].FRAMEWORK_NAME = parser.FRAMEWORK_NAME THEN parser ELSE reg[i]]
    ELSE Append(reg, parser)

\* ParserRegistry.get_parser: <<>> stands for None.
get_parser(reg, framework_name) ==
    IF Slot(reg, framework_name) = {} THEN <<>>
    ELSE <<reg[CHOOSE i \in Slot(reg, framework_name) : TRUE]>>

\* ParserRegistry.get_all_parsers.
get_all_parsers(reg) == reg

\* The positions of reg whose parser takes the extension and detects the content.
Detecting(reg, content, file_ext) ==
    {i \in 1..Len(reg) : /\ file_ext \in reg[i].SUPPORTED_EXTENSIONS
                         /\ parser_detect_framework(reg[i], content)}

\* Variant of detect_framework: the loop does not stop at the first match, the
\* last matching parser is returned.
detect_framework_last(reg, content, file_ext) ==
    LET hits == Detecting(reg, content, file_ext)
    IN IF hits = {} THEN <<>>
       ELSE <<reg[CHOOSE i \in hits : \A j \in hits : j <= i]>>

\* ParserRegistry.detect_framework: <<>> stands for None.
detect_framework(reg, content, file_ext) ==
    LET hits == Detecting(reg, content, file_ext)
    IN IF hits = {} THEN <<>>
       ELSE <<reg[CHOOSE i \in hits : \A j \in hits : i <= j]>>

\* parsers/__init__.py lines 28-32: the registrations of the package import.
ModuleParsers ==
    <<Instance(ExpressParser, 1), Instance(FlaskParser, 2), Instance(DjangoRESTParser, 3),
      Instance(SpringBootParser, 4), Instance(GoGinParser, 5)>>

RECURSIVE register_all(_, _)
register_all(reg, ps) ==
    IF ps = <<>> THEN reg ELSE register_all(register(reg, Head(ps)), Tail(ps))

ModuleRegistry == register_all(<<>>, ModuleParsers)

\* ------------------------------------------- the framework parsers (pure)
\* ParsedEndpoint, reduced to the fields the properties speak about.
ParsedEndpoint(path, method, framework, line_number) ==
    [path |-> path, method |-> method, framework |-> framework,
     line_number |-> line_number]

\* [m.upper() for m in methods]
RECURSIVE parse_methods(_)
parse_methods(methods) ==
    IF methods = <<>> THEN <<>>
    ELSE <<Upper(Head(methods))>> \o parse_methods(Tail(methods))

\* One endpoint per verb of a list, all with the same path.
RECURSIVE for_each_method(_, _, _, _)
for_each_method(methods, path, framework, line_number) ==
    IF methods = <<>> THEN <<>>
    ELSE <<ParsedEndpoint(path, Head(methods), framework, line_number)>>
         \o for_each_method(Tail(methods), path, framework, line_number)

\* DjangoRESTParser.VIEWSET_ACTIONS
VIEWSET_ACTIONS ==
    [list |-> "GET", create |-> "POST", retrieve |-> "GET", update |-> "PUT",
     partial_update |-> "PATCH", destroy |-> "DELETE"]

\* func_name.replace('_', '-') and _class_to_path on the names of the inputs.
hyphenated(name) == IF name = "list_users" THEN "list-users" ELSE name
class_to_path(class_name) == IF class_name = "UserViewSet" THEN "users" ELSE "s"

\* The endpoints of the handler methods of one class-based view (lines 147-172).
RECURSIVE class_view_endpoints(_, _, _)
class_view_endpoints(defs, base_path, func_line) ==
    IF defs = <<>> THEN <<>>
    ELSE LET method_name == Head(defs)
             ep == IF method_name \in DOMAIN VIEWSET_ACTIONS
                   THEN ParsedEndpoint(
                            IF method_name \in {"retrieve", "update", "partial_update", "destroy"}
                            THEN base_path \o <<"/", "{id}">> ELSE base_path,
                            VIEWSET_ACTIONS[method_name], "django_rest", func_line)
                   ELSE ParsedEndpoint(base_path, Upper(method_name), "django_rest", func_line)
         IN <<ep>> \o class_view_endpoints(Tail(defs), base_path, func_line + 1)

\* What one loop of a parser's parse_content emits for one declaration d that
\* starts at line_number; loop names the regular expression the loop iterates.
loop_endpoints(loop, d, line_number) ==
    CASE loop = "flask.ROUTE_DECORATOR" /\ d.style = "route" ->
            for_each_method(IF d.methods # <<>> THEN parse_methods(d.methods) ELSE <<"GET">>,
                            normalize_path(d.path), "flask", line_number)
      [] loop = "flask.SHORTHAND_DECORATOR" /\ d.style = "decorator"
            /\ d.method \in {"get", "post", "put", "patch", "delete"} ->
            <<ParsedEndpoint(normalize_path(d.path), Upper(d.method), "flask", line_number)>>
      [] loop = "express.METHOD_PATTERN" /\ d.style = "express"
            /\ Upper(d.method) \in HTTPMethod ->
            <<ParsedEndpoint(normalize_path(d.path), Upper(d.method), "express", line_number)>>
      [] loop = "express.ROUTER_ROUTE_PATTERN" /\ d.style = "express_route"
            /\ Upper(d.method) \in {"GET", "POST", "PUT", "PATCH", "DELETE"} ->
            <<ParsedEndpoint(normalize_path(d.path), Upper(d.method), "express", line_number)>>
      [] loop = "spring.METHOD_ANNOTATION" /\ d.style = "spring_mapping"
            /\ d.method \in {"Get", "Post", "Put", "Delete", "Patch"} ->
            <<ParsedEndpoint(normalize_path(d.base \o d.path), Upper(d.method), "spring_boot", line_number)>>
      [] loop = "spring.SIMPLE_METHOD_ANNOTATION" /\ d.style = "spring_simple"
            /\ d.method \in {"Get", "Post", "Put", "Delete", "Patch"} ->
            <<ParsedEndpoint(IF d.base # <<>> THEN normalize_path(d.base) ELSE <<"/">>,
                             Upper(d.method), "spring_boot", line_number)>>
      [] loop = "spring.REQUEST_MAPPING" /\ d.style = "request_mapping" ->
            <<ParsedEndpoint(normalize_path(d.base \o d.path),
                             IF d.methods # <<>> THEN Upper(Head(d.methods)) ELSE "GET",
                             "spring_boot", line_number)>>
      [] loop = "django.API_VIEW_DECORATOR" /\ d.style = "api_view" ->
            for_each_method(parse_methods(d.methods),
                            <<"/", hyphenated(Head(d.path))>>, "django_rest", line_number)
      [] loop = "django.CLASS_VIEW" /\ d.style = "class_view" ->
            class_view_endpoints(d.methods, <<"/", class_to_path(Head(d.path))>>,
                                 line_number + 1)
      \* groups (go_gin_parser.py:82-86) and base_paths (express_parser.py:68)
      \* are collected and read by nothing: the path is the literal alone.
      [] loop = "go.METHOD_PATTERN" /\ d.style = "go"
            /\ Upper(d.method) \in HTTPMethod ->
            <<ParsedEndpoint(normalize_path(d.path), Upper(d.method), "go_gin", line_number)>>
      [] OTHER -> <<>>

\* Lines a piece of the content takes: a class with one line per handler
\* method, a decorator or call with the line that follows it, a line of text.
decl_lines(d) ==
    CASE d.style = "class_view" -> 1 + Len(d.methods)
      [] d.style = "text" -> 1
      [] OTHER -> 2

\* content[:match.start()].count('\n') + 1 for the k-th piece of the content.
RECURSIVE line_of(_, _)
line_of(content, k) ==
    IF k = 1 THEN 1 ELSE line_of(content, k - 1) + decl_lines(content[k - 1])

\* One finditer loop over the content from its k-th declaration on, in source
\* order.
RECURSIVE finditer_from(_, _, _)
finditer_from(loop, content, k) ==
    IF k > Len(content) THEN <<>>
    ELSE loop_endpoints(loop, content[k], line_of(content, k))
         \o finditer_from(loop, content, k + 1)

finditer(loop, content) == finditer_from(loop, content, 1)

\* parse_content of the parser registered under FRAMEWORK_NAME.
parse_content(parser, content) ==
    CASE parser.FRAMEWORK_NAME = "flask" ->
            finditer("flask.ROUTE_DECORATOR", content)
            \o finditer("flask.SHORTHAND_DECORATOR", content)
      [] parser.FRAMEWORK_NAME = "express" ->
            finditer("express.METHOD_PATTERN", content)
            \o finditer("express.ROUTER_ROUTE_PATTERN", content)
      [] parser.FRAMEWORK_NAME = "spring_boot" ->
            finditer("spring.METHOD_ANNOTATION", content)
            \o finditer("spring.SIMPLE_METHOD_ANNOTATION", content)
            \o finditer("spring.REQUEST_MAPPING", content)
      [] parser.FRAMEWORK_NAME = "django_rest" ->
            finditer("django.API_VIEW_DECORATOR", content)
            \o finditer("django.CLASS_VIEW", content)
      [] parser.FRAMEWORK_NAME = "go_gin" ->
            finditer("go.METHOD_PATTERN", content)
      [] OTHER -> <<>>

\* Variant of parse_file: with no parser detected, the first registered
\* parser that takes the extension parses the file.
parse_file_by_extension(reg, file) ==
    LET parser == detect_framework(reg, file.content, file.ext)
        byExt == {i \in 1..Len(reg) : file.ext \in reg[i].SUPPORTED_EXTENSIONS}
    IN IF parser # <<>> THEN parse_content(parser[1], file.content)
       ELSE IF byExt # {}
            THEN parse_content(reg[CHOOSE i \in byExt : \A j \in byExt : i <= j], file.content)
            ELSE <<>>

\* parse_file of parsers/__init__.py (lines 60-77): get_parser_for_file, then
\* the detected parser's parse_file; [] without a parser.
parse_file(reg, file) ==
    LET parser == detect_framework(reg, file.content, file.ext)
    IN IF parser # <<>> THEN parse_content(parser[1], file.content) ELSE <<>>

\* ------------------------------------------------------------ persistence
Key(r) == <<r.path, r.method>>

\* Number of rows of table that have key k.
RECURSIVE Count(_, _)
Count(table, k) ==
    IF table = <<>> THEN 0
    ELSE (IF Key(Head(table)) = k THEN 1 ELSE 0) + Count(Tail(table), k)

\* Positions of the rows of table that have key k.
Matching(table, k) == {i \in 1..Len(table) : Key(table[i]) = k}

\* The fields _save_endpoints_bulk assigns (scan_service.py:419-427).
set_fields(row, doc) ==
    [row EXCEPT !.summary = doc.summary,
                !.description = doc.description,
                !.tags = doc.tags,
                !.auth_required = doc.auth_required,
                !.file_path = doc.file_path]

\* APIEndpoint(repository_id, path, method) with the fields assigned.
new_row(doc) ==
    set_fields([path |-> doc.path, method |-> Upper(doc.method),
                summary |-> <<>>, description |-> <<>>, tags |-> <<>>,
                auth_required |-> FALSE, file_path |-> 0], doc)

\* A row found by an earlier scan whose endpoint is no longer in the tree.
StaleRow ==
    [path |-> GonePath, method |-> "GET", summary |-> <<"regex", "GET", GonePath>>,
     description |-> <<"regex", 0>>, tags |-> <<"python">>,
     auth_required |-> FALSE, file_path |-> 0]

\* The key of the lookup of _save_endpoints_bulk (scan_service.py:398-399).
DocKey(doc) == <<doc.path, Upper(doc.method)>>

\* ------------------------------------------------------------------ state
VARIABLES
    tree,           \* the files of the repository, in os.walk order
    aiModel,        \* self.ai_service.model is set
    dbEndpoints,    \* committed rows of api_endpoints of this repository
    repoDb,         \* committed scan fields of the repositories row
    pc,             \* position of the process_repository run
    found,          \* the run's SELECT found the repository row
    repo,           \* the Repository object of the run's session
    session,        \* "active", or "inactive" after a failed flush
    sessRows,       \* the session's persistent APIEndpoint objects
    sessNew,        \* objects added with db.add, not yet flushed
    workTree,       \* the cloned working tree exists on disk
    loaded,         \* paths whose content _get_code_files has read
    code_files,     \* list handed to _process_files_parallel
    batchStart,     \* loop variable i of _process_files_parallel
    gathering,      \* inside await asyncio.gather of the current batch
    tasks,          \* per-file tasks started so far: state and result
    all_endpoints,  \* aggregate list of _process_files_parallel
    errors,         \* paths of the files whose task raised
    aiCalls,        \* calls of ai_service.generate_doc made by the run
    saveIdx,        \* next element of the loop of _save_endpoints_bulk
    escaped,        \* an exception left process_repository
    runs,           \* runs started so far
    dbAtStart,      \* dbEndpoints when the current run started
    parsers,        \* ParserRegistry._parsers, its values in insertion order
    regLog,         \* the parsers passed to register so far, in call order
    srcFile,        \* the file of the last call of parse_file
    parseDone,      \* parse_file has been called
    detected,       \* what get_parser_for_file returned in that call
    emitted,        \* endpoints returned by the last parse_file / parse_content
    extracted,      \* endpoints returned by the last _extract_endpoints_regex
    normOut,        \* an argument of normalize_path and the results of applying it
    webhookSecret,  \* settings.GITHUB_WEBHOOK_SECRET, "" when it is not set
    autoScan,       \* auto_scan_enabled of the repository row
    webhookReq,     \* the last request POST /github has answered
    httpStatus,     \* the status code of that answer, 0 before any request
    queued,         \* process_repository tasks added and not yet started
    otherPc,        \* position of a second process_repository run of the repository
    disk,           \* the regular files under a directory given to RepositoryScanner
    results,        \* the list the last scan_repository of that directory returned
    walkDone        \* scan_repository has returned for the files now on disk

libVars == <<parsers, regLog, srcFile, parseDone, detected, emitted, extracted, normOut>>

apiVars == <<webhookSecret, autoScan, webhookReq, httpStatus, queued, otherPc>>

walkVars == <<disk, results, walkDone>>

vars == <<tree, aiModel, dbEndpoints, repoDb, pc, found, repo, session,
          sessRows, sessNew, workTree, loaded, code_files, batchStart, gathering, tasks,
          all_endpoints, errors, aiCalls, saveIdx, escaped, runs, dbAtStart, libVars,
          apiVars, walkVars>>

\* What no step of process_repository changes: the repository's files, the
\* configuration, the parser package (ScanService never calls it), and the
\* HTTP handlers with the runs they start.
envVars == <<tree, aiModel, libVars, apiVars, walkVars>>
dbVars == <<dbEndpoints, repoDb>>
sessVars == <<session, sessRows, sessNew>>
parVars == <<loaded, code_files, batchStart, gathering, tasks, all_endpoints, errors,
             aiCalls>>

\* The scan fields of a repository row as create_repository stores it.
NoRepo == [scan_status |-> PENDING, api_count |-> 0, scan_error_message |-> "none"]

\* ------------------------------------------------- api/webhooks.py (pure)
\* hmac.new(secret, payload, hashlib.sha256).hexdigest()
HMAC(secret, payload) == <<"hmac-sha256", secret, payload>>

\* An X-Hub-Signature-256 header value: the text before the digest, and the
\* digest.  The header that is absent reads "".
Signature(prefix, hash) == [prefix |-> prefix, hash |-> hash]
NoSignature == Signature("", <<>>)

\* verify_github_signature(payload, signature) under the configured secret.
verify_github_signature(secret, payload, signature) ==
    IF secret = "" THEN TRUE
    ELSE IF signature = NoSignature THEN FALSE
    ELSE IF signature.prefix # "sha256=" THEN FALSE
    ELSE signature.hash = HMAC(secret, payload)

\* Request bodies: JSON or not, and the repository.full_name of the payload.
Body(json, full_name) == [json |-> json, full_name |-> full_name]
Bodies ==
    {Body(TRUE, "none"), Body(TRUE, "tracked"), Body(TRUE, "untracked"),
     Body(FALSE, "none")}

\* The secret of the deployment that configures one, and a key a sender
\* without it may sign with.
DeploySecret == "s3cret"
SenderKeys == {DeploySecret, "guess"}

\* Requests to POST /github.
Requests ==
    {[body |-> b, signature |-> sig, event |-> e] :
        b \in Bodies,
        sig \in {NoSignature} \cup {Signature(pre, HMAC(k, b2)) :
                     pre \in {"sha256=", "sha1="}, k \in SenderKeys, b2 \in Bodies},
        e \in {"ping", "push", "issues"}}

NoRequest == [body |-> Body(FALSE, "none"), signature |-> NoSignature, event |-> ""]

\* No request has been answered, no run has been added, the secret is not
\* configured (config.py:109).
ApiIdle ==
    /\ webhookSecret = ""
    /\ autoScan = TRUE
    /\ webhookReq = NoRequest
    /\ httpStatus = 0
    /\ queued = 0
    /\ otherPc = "none"

\* The parser package after its import: the five module-level registrations
\* have run, nothing has been parsed.
\* ---------------------------------------- RepositoryScanner, directories
\* A name is the sequence of its pieces: a leading "." piece when the name
\* starts with a dot, and one piece per dotted suffix.
startswith_dot(name) == name[1] = "."

\* IGNORED_DIRS (scanner.py:15-18).
IGNORED_DIRS ==
    {<<".", "git">>, <<".", "github">>, <<".", "vscode">>, <<".", "idea">>,
     <<"__pycache__">>, <<"node_modules">>, <<"venv">>, <<"env">>, <<"dist">>,
     <<"build">>, <<"coverage">>, <<"target">>, <<"bin">>, <<"obj">>}

\* IGNORED_EXTENSIONS (scanner.py:20-31); the last four members are file
\* names, which no Path.suffix equals.
IGNORED_EXTENSIONS ==
    {".png", ".jpg", ".jpeg", ".gif", ".ico", ".svg", ".webp",
     ".pdf", ".doc", ".docx", ".xls", ".xlsx", ".ppt", ".pptx",
     ".zip", ".tar", ".gz", ".rar", ".7z",
     ".exe", ".dll", ".so", ".dylib", ".class", ".pyc", ".o",
     ".lock", "package-lock.json", "yarn.lock", "poetry.lock", "Cargo.lock"}

\* Directory and file names of the inputs.
DirNames == {<<"src">>, <<"node_modules">>, <<".", "circleci">>}
FileNames ==
    {<<"main", ".py">>, <<"logo", ".PNG">>, <<"package-lock", ".json">>,
     <<"yarn", ".lock">>, <<".", "env">>}
SuffixPieces == {".py", ".PNG", ".json", ".lock"}

\* A regular file: the names of the directories from the root down to it,
\* and its own name.
DiskFile(dirs, name) == [dirs |-> dirs, name |-> name]
DiskFiles ==
    {DiskFile(dirs, name) :
        dirs \in {<<>>} \cup {<<a>> : a \in DirNames}
                       \cup {<<a, b>> : a \in DirNames, b \in DirNames},
        name \in FileNames}

\* Path.suffix: the part from the last dot on, empty when that dot is the
\* first character of the name.
suffix(name) ==
    IF Len(name) > 1 /\ name[Len(name)] \in SuffixPieces THEN name[Len(name)] ELSE ""

\* str.lower on the suffixes of the inputs.
lower(ext) == IF ext = ".PNG" THEN ".png" ELSE ext

\* Variant of keep_dir: only the names of IGNORED_DIRS are pruned.
keep_dir_listed_only(d) == d \notin IGNORED_DIRS

\* scanner.py:81, the filter on dirs.
keep_dir(d) == d \notin IGNORED_DIRS /\ ~startswith_dot(d)

\* scanner.py:84-92: the file is neither hidden nor of an ignored extension.
keep_file(name) ==
    /\ ~startswith_dot(name)
    /\ lower(suffix(name)) \notin IGNORED_EXTENSIONS

\* The file_info of one file (lines 97-103): its path relative to the root.
walked_file(f) == [path |-> f.dirs \o <<f.name>>, extension |-> lower(suffix(f.name))]

\* The files directly in directory top, and the names of its subdirectories.
files_of(d, top) == {f \in d : f.dirs = top}
dirs_of(d, top) ==
    {f.dirs[Len(top) + 1] :
        f \in {g \in d : Len(g.dirs) > Len(top) /\ SubSeq(g.dirs, 1, Len(top)) = top}}

\* The file_info of the kept files of a set, in the order of the listing.
RECURSIVE kept_files(_)
kept_files(fs) ==
    IF fs = {} THEN <<>>
    ELSE LET f == CHOOSE x \in fs : TRUE
         IN (IF keep_file(f.name) THEN <<walked_file(f)>> ELSE <<>>) \o kept_files(fs \ {f})

\* os.walk from directory top (lines 79-113): the files of top, then the
\* walk of every subdirectory left in dirs.
RECURSIVE os_walk(_, _)
RECURSIVE walk_each(_, _, _)
os_walk(d, top) ==
    kept_files(files_of(d, top))
        \o walk_each(d, top, {x \in dirs_of(d, top) : keep_dir(x)})
walk_each(d, top, ds) ==
    IF ds = {} THEN <<>>
    ELSE LET x == CHOOSE y \in ds : TRUE
         IN os_walk(d, Append(top, x)) \o walk_each(d, top, ds \ {x})

WalkIdle ==
    /\ disk = {}
    /\ results = <<>>
    /\ walkDone = FALSE

NoFile == [ext |-> "", content |-> <<>>]

LibIdle ==
    /\ parsers = ModuleRegistry
    /\ regLog = ModuleParsers
    /\ srcFile = NoFile
    /\ parseDone = FALSE
    /\ detected = <<>>
    /\ emitted = <<>>
    /\ extracted = <<>>
    /\ normOut = <<>>

\* A repository has been added and its first scan is scheduled: the row
\* create_repository stored, one endpoint row of an earlier version of the
\* repository, no run in progress.
RunIdle ==
    /\ LibIdle
    /\ ApiIdle
    /\ WalkIdle
    /\ dbEndpoints = <<StaleRow>>
    /\ repoDb = NoRepo
    /\ pc = "idle"
    /\ found = FALSE
    /\ repo = NoRepo
    /\ session = "active"
    /\ sessRows = <<>>
    /\ sessNew = <<>>
    /\ workTree = FALSE
    /\ loaded = {}
    /\ code_files = <<>>
    /\ batchStart = 0
    /\ gathering = FALSE
    /\ tasks = <<>>
    /\ all_endpoints = <<>>
    /\ errors = <<>>
    /\ aiCalls = 0
    /\ saveIdx = 1
    /\ escaped = FALSE
    /\ runs = 0
    /\ dbAtStart = <<>>

\* The AI service is not configured (GEMINI_API_KEY unset, ai_service.py:15-18).
Init ==
    /\ tree \in SeqUpTo(FileKinds, MaxFiles)
    /\ aiModel = FALSE
    /\ RunIdle

\* ------------------------------------------------------ process_repository
\* Lines 89-105: the repository row is found, marked SCANNING and committed.
StartRun ==
    /\ pc = "idle"
    /\ runs < MaxRuns
    /\ found' = TRUE
    /\ repo' = [repoDb EXCEPT !.scan_status = SCANNING]
    /\ repoDb' = repo'
    /\ session' = "active"
    /\ sessRows' = dbEndpoints
    /\ sessNew' = <<>>
    /\ loaded' = {}
    /\ code_files' = <<>>
    /\ batchStart' = 0
    /\ gathering' = FALSE
    /\ tasks' = <<>>
    /\ all_endpoints' = <<>>
    /\ errors' = <<>>
    /\ aiCalls' = 0
    /\ saveIdx' = 1
    /\ escaped' = FALSE
    /\ runs' = runs + 1
    /\ dbAtStart' = dbEndpoints
    /\ pc' = "clone"
    /\ UNCHANGED <<envVars, dbEndpoints, workTree>>

\* Lines 98-100: no repository row; the run returns without touching anything.
RepoNotFound ==
    /\ pc = "idle"
    /\ runs = 0
    /\ found' = FALSE
    /\ runs' = runs + 1
    /\ pc' = "done"
    /\ UNCHANGED <<envVars, dbVars, repo, sessVars, workTree, parVars, saveIdx,
                   escaped, dbAtStart>>

\* _fail_scan (lines 435-439) called on a session whose transaction is usable,
\* followed by the finally block (lines 168-175).
fail_scan(msg) ==
    /\ repo' = [repo EXCEPT !.scan_status = FAILED, !.scan_error_message = msg]
    /\ repoDb' = repo'
    /\ workTree' = FALSE
    /\ pc' = "done"

\* Lines 114, 187-197: the clone succeeds.
CloneOk ==
    /\ pc = "clone"
    /\ workTree' = TRUE
    /\ pc' = "scan"
    /\ UNCHANGED <<envVars, dbVars, found, repo, sessVars, parVars, saveIdx,
                   escaped, runs, dbAtStart>>

\* Lines 195-197, 115-117: the clone raises; _clone_repository fails the scan.
CloneFail ==
    /\ pc = "clone"
    /\ fail_scan("Clone failed")
    /\ UNCHANGED <<envVars, dbEndpoints, found, sessVars, parVars, saveIdx,
                   escaped, runs, dbAtStart>>

\* Lines 120-141 with no exception: enumeration and the candidate filter.
ScanFilesOk ==
    /\ pc = "scan"
    /\ ~scan_raises(workTree, tree)
    /\ loaded' = loaded_paths(scan_repository(tree))
    /\ code_files' = get_code_files(scan_repository(tree), tree)
    /\ pc' = "process"
    /\ UNCHANGED <<envVars, dbVars, found, repo, sessVars, workTree, batchStart,
                   gathering, tasks, all_endpoints, errors, aiCalls, saveIdx, escaped,
                   runs, dbAtStart>>

\* Line 122 raises (missing root, or stat() of an entry fails): lines 163-166.
ScanFilesRaises ==
    /\ pc = "scan"
    /\ scan_raises(workTree, tree)
    /\ fail_scan("System error")
    /\ UNCHANGED <<envVars, dbEndpoints, found, sessVars, parVars, saveIdx,
                   escaped, runs, dbAtStart>>

\* The working tree is deleted under the run from outside the server process:
\* REPO_STORAGE_PATH is a directory any other program, or a second server on
\* the same directory calling delete_repository, may clean.
RootRemoved ==
    /\ pc = "scan"
    /\ workTree
    /\ workTree' = FALSE
    /\ UNCHANGED <<envVars, dbVars, pc, found, repo, sessVars, parVars, saveIdx,
                   escaped, runs, dbAtStart>>

\* Variant of batch_end: the slice has no upper index (files[i:]).
batch_end_unbounded(i, n) == n

\* ------------------------------------------------- _process_files_parallel
\* files[i:i + BATCH_SIZE]: the last index of the batch that starts after i.
batch_end(i, n) == Min(i + BATCH_SIZE, n)

Running == {j \in DOMAIN tasks : tasks[j].st = "running"}

\* Variant of gather_done: the results are read without awaiting the tasks.
gather_done_no_wait == TRUE

\* await asyncio.gather(*tasks, return_exceptions=True) returns when every
\* task of the batch has finished.
gather_done == Running = {}

\* Lines 275-280: the next batch is cut and one task per file is created.
StartBatch ==
    /\ pc = "process"
    /\ ~gathering
    /\ batchStart < Len(code_files)
    /\ LET batch == (batchStart + 1)..batch_end(batchStart, Len(code_files))
       IN tasks' = [j \in DOMAIN tasks \cup batch |->
                       IF j \in batch THEN [st |-> "running", eps |-> <<>>, ai |-> "off"]
                       ELSE tasks[j]]
    /\ gathering' = TRUE
    /\ UNCHANGED <<envVars, dbVars, pc, found, repo, sessVars, workTree, loaded, code_files,
                   batchStart, all_endpoints, errors, aiCalls, saveIdx, escaped, runs,
                   dbAtStart>>

\* One task of the batch finishes: _process_single_file ran to its end for
\* some outcome of the enrichment call.
TaskReturns ==
    /\ pc = "process"
    /\ \E j \in Running :
         \E outcome \in ai_outcomes(code_files[j], aiModel) :
            LET r == process_single_file(code_files[j], outcome)
            IN tasks' = [tasks EXCEPT ![j] = [st |-> r.st, eps |-> r.eps, ai |-> outcome]]
    /\ aiCalls' = aiCalls + (IF aiModel THEN 1 ELSE 0)
    /\ UNCHANGED <<envVars, dbVars, pc, found, repo, sessVars, workTree, loaded, code_files,
                   batchStart, gathering, all_endpoints, errors, saveIdx, escaped,
                   runs, dbAtStart>>

\* One task of the batch finishes: _process_single_file raised outside the
\* try of lines 309-318, that is in the regex fallback, which is reached when
\* the enrichment is off or gave no document.
TaskRaises ==
    /\ pc = "process"
    /\ \E j \in Running :
         \E outcome \in ai_outcomes(code_files[j], aiModel) \ {"doc"} :
            tasks' = [tasks EXCEPT ![j] = [st |-> "exc", eps |-> <<>>, ai |-> outcome]]
    /\ aiCalls' = aiCalls + (IF aiModel THEN 1 ELSE 0)
    /\ UNCHANGED <<envVars, dbVars, pc, found, repo, sessVars, workTree, loaded, code_files,
                   batchStart, gathering, all_endpoints, errors, saveIdx, escaped,
                   runs, dbAtStart>>

\* Variant of collected: the first exception of a batch ends its collection.
RECURSIVE collected_abort(_, _, _)
collected_abort(ts, lo, hi) ==
    IF lo > hi THEN <<>>
    ELSE IF ts[lo].st = "exc" THEN <<>>
    ELSE ts[lo].eps \o collected_abort(ts, lo + 1, hi)

\* Lines 283-289 for the tasks lo..hi, in the order of the batch: what is
\* appended to all_endpoints.
RECURSIVE collected(_, _, _)
collected(ts, lo, hi) ==
    IF lo > hi THEN <<>>
    ELSE (IF ts[lo].st = "ok" THEN ts[lo].eps ELSE <<>>) \o collected(ts, lo + 1, hi)

\* Lines 284-286 for the tasks lo..hi: what is appended to errors.
RECURSIVE collected_errors(_, _, _)
collected_errors(ts, lo, hi) ==
    IF lo > hi THEN <<>>
    ELSE (IF ts[lo].st = "exc" THEN <<lo>> ELSE <<>>) \o collected_errors(ts, lo + 1, hi)

\* Lines 280-289: gather has returned; the results are collected and the loop
\* moves to the next batch.
CollectBatch ==
    /\ pc = "process"
    /\ gathering
    /\ gather_done
    /\ LET hi == batch_end(batchStart, Len(code_files))
       IN /\ all_endpoints' = all_endpoints \o collected(tasks, batchStart + 1, hi)
          /\ errors' = errors \o collected_errors(tasks, batchStart + 1, hi)
    /\ batchStart' = batchStart + BATCH_SIZE
    /\ gathering' = FALSE
    /\ UNCHANGED <<envVars, dbVars, pc, found, repo, sessVars, workTree, loaded, code_files,
                   tasks, aiCalls, saveIdx, escaped, runs, dbAtStart>>

\* Line 294 and lines 143-152: the loop is over; endpoints, if any, go to
\* _save_endpoints_bulk.
ReturnEndpoints ==
    /\ pc = "process"
    /\ ~gathering
    /\ batchStart >= Len(code_files)
    /\ pc' = IF all_endpoints # <<>> THEN "save" ELSE "mark"
    /\ saveIdx' = 1
    /\ UNCHANGED <<envVars, dbVars, found, repo, sessVars, workTree, parVars,
                   escaped, runs, dbAtStart>>

\* Variant of lookup: the SELECT never finds a row.
lookup_none(table, k) == {}

\* Variant of lookup: of several matching rows the first is taken (first()).
lookup_first(table, k) ==
    IF Matching(table, k) = {} THEN {}
    ELSE {CHOOSE i \in Matching(table, k) : \A j \in Matching(table, k) : i <= j}

\* ---------------------------------------------------- _save_endpoints_bulk
\* Lines 402-408: the SELECT by (repository, path, method).  autoflush is off
\* (database.py:49), so the statement sees the committed rows only, never the
\* objects added earlier in the same loop.
lookup(table, k) == Matching(table, k)

\* One iteration of the loop of lines 396-431.  scalar_one_or_none() raises
\* for two or more rows; the except of line 429 skips the endpoint.
SaveEndpoint ==
    /\ pc = "save"
    /\ saveIdx <= Len(all_endpoints)
    /\ LET doc == all_endpoints[saveIdx]
           hit == lookup(dbEndpoints, DocKey(doc))
       IN CASE hit = {} ->
                  /\ sessNew' = Append(sessNew, new_row(doc))
                  /\ sessRows' = sessRows
            [] Cardinality(hit) = 1 ->
                  /\ sessRows' = [i \in DOMAIN sessRows |->
                                     IF i \in hit THEN set_fields(sessRows[i], doc)
                                     ELSE sessRows[i]]
                  /\ sessNew' = sessNew
            [] OTHER ->
                  /\ sessRows' = sessRows
                  /\ sessNew' = sessNew
    /\ saveIdx' = saveIdx + 1
    /\ UNCHANGED <<envVars, dbVars, pc, found, repo, session, workTree, parVars,
                   escaped, runs, dbAtStart>>

\* Variant of flushed: the repository's rows are replaced by the scan's.
flushed_replace(rows, new) == new

\* The table after a successful flush: updates in place, inserts appended.
flushed(rows, new) == rows \o new

\* The database the engine is bound to (database.py:11-18).
Dialects == {"sqlite", "postgresql"}

\* The INSERT of a row whose path exceeds String(500) is rejected by
\* PostgreSQL; SQLite does not enforce the length.
flush_fails(new, dialect) ==
    /\ dialect = "postgresql"
    /\ \E i \in 1..Len(new) : PathLength(new[i].path) > PATH_COLUMN_LENGTH

\* Line 433: the commit flushes the unit of work and succeeds.
SaveCommit ==
    /\ pc = "save"
    /\ saveIdx > Len(all_endpoints)
    /\ \E dialect \in Dialects : ~flush_fails(sessNew, dialect)
    /\ dbEndpoints' = flushed(sessRows, sessNew)
    /\ sessRows' = dbEndpoints'
    /\ sessNew' = <<>>
    /\ pc' = "mark"
    /\ UNCHANGED <<envVars, repoDb, found, repo, session, workTree, parVars,
                   saveIdx, escaped, runs, dbAtStart>>

\* Line 433 raises, outside the per-endpoint try: the flush is rolled back and
\* the session's transaction is left inactive.  The except of line 163 calls
\* _fail_scan, which assigns FAILED and commits without a rollback; that commit
\* raises in turn and the exception leaves process_repository.  The rollback
\* of the failed flush expired every object of the session, so in the finally
\* block the read of repo.full_name (line 172) needs a SELECT on the inactive
\* transaction and raises inside the try of line 171: delete_repository is
\* not called and the working tree stays.
SaveCommitRaises ==
    /\ pc = "save"
    /\ saveIdx > Len(all_endpoints)
    /\ \E dialect \in Dialects : flush_fails(sessNew, dialect)
    /\ session' = "inactive"
    /\ sessRows' = dbEndpoints
    /\ sessNew' = <<>>
    /\ repo' = [repo EXCEPT !.scan_status = FAILED,
                            !.scan_error_message = "System error"]
    /\ escaped' = TRUE
    /\ pc' = "done"
    /\ UNCHANGED <<envVars, dbVars, found, workTree, parVars, saveIdx, runs, dbAtStart>>

\* Lines 154-159 and the finally block.
MarkCompleted ==
    /\ pc = "mark"
    /\ repo' = [scan_status |-> COMPLETED,
                api_count |-> Len(all_endpoints),
                scan_error_message |-> "none"]
    /\ repoDb' = repo'
    /\ workTree' = FALSE
    /\ pc' = "done"
    /\ UNCHANGED <<envVars, dbEndpoints, found, sessVars, parVars, saveIdx,
                   escaped, runs, dbAtStart>>

\* rescan_repository (api/repositories.py:127-148): the status is reset to
\* PENDING and a new run is scheduled.
RequestRescan ==
    /\ pc = "done"
    /\ found
    /\ runs < MaxRuns
    /\ repoDb' = [repoDb EXCEPT !.scan_status = PENDING]
    /\ pc' = "idle"
    /\ UNCHANGED <<envVars, dbEndpoints, found, repo, sessVars, workTree, parVars,
                   saveIdx, escaped, runs, dbAtStart>>

Next ==
    \/ StartRun
    \/ RepoNotFound
    \/ CloneOk
    \/ CloneFail
    \/ RootRemoved
    \/ ScanFilesOk
    \/ ScanFilesRaises
    \/ StartBatch
    \/ TaskReturns
    \/ TaskRaises
    \/ CollectBatch
    \/ ReturnEndpoints
    \/ SaveEndpoint
    \/ SaveCommit
    \/ SaveCommitRaises
    \/ MarkCompleted
    \/ RequestRescan

Spec == Init /\ [][Next]_vars

\* ---------------------------------- _process_files_parallel on its own
\* Candidate file i of a list of n: one route each, two keys in turn.
par_file(i) ==
    [path |-> i, language |-> "python", size |-> 200,
     content |-> <<Decl("decorator", "get", IF i % 2 = 1 THEN UsersPath ELSE ItemsPath)>>]

InitPar ==
    /\ tree = <<>>
    /\ aiModel = FALSE
    /\ dbEndpoints = <<StaleRow>>
    /\ repoDb = [NoRepo EXCEPT !.scan_status = SCANNING]
    /\ pc = "process"
    /\ found = TRUE
    /\ repo = repoDb
    /\ session = "active"
    /\ sessRows = dbEndpoints
    /\ sessNew = <<>>
    /\ workTree = TRUE
    /\ \E n \in 0..MaxParFiles :
          /\ code_files = [i \in 1..n |-> par_file(i)]
          /\ loaded = 1..n
    /\ batchStart = 0
    /\ gathering = FALSE
    /\ tasks = <<>>
    /\ all_endpoints = <<>>
    /\ errors = <<>>
    /\ aiCalls = 0
    /\ saveIdx = 1
    /\ escaped = FALSE
    /\ runs = 1
    /\ dbAtStart = dbEndpoints
    /\ LibIdle
    /\ ApiIdle
    /\ WalkIdle

NextPar ==
    \/ StartBatch
    \/ TaskReturns
    \/ TaskRaises
    \/ CollectBatch
    \/ ReturnEndpoints

SpecPar == InitPar /\ [][NextPar]_vars

\* --------------------------------------------- the candidate filter alone
\* A run that has cloned its repository and is about to enumerate it.
InitFilter ==
    /\ tree \in SeqUpTo(FilterKinds, MaxFilterFiles)
    /\ aiModel = FALSE
    /\ dbEndpoints = <<StaleRow>>
    /\ repoDb = [NoRepo EXCEPT !.scan_status = SCANNING]
    /\ pc = "scan"
    /\ found = TRUE
    /\ repo = repoDb
    /\ session = "active"
    /\ sessRows = dbEndpoints
    /\ sessNew = <<>>
    /\ workTree = TRUE
    /\ loaded = {}
    /\ code_files = <<>>
    /\ batchStart = 0
    /\ gathering = FALSE
    /\ tasks = <<>>
    /\ all_endpoints = <<>>
    /\ errors = <<>>
    /\ aiCalls = 0
    /\ saveIdx = 1
    /\ escaped = FALSE
    /\ runs = 1
    /\ dbAtStart = dbEndpoints
    /\ LibIdle
    /\ ApiIdle
    /\ WalkIdle

NextFilter == ScanFilesOk

SpecFilter == InitFilter /\ [][NextFilter]_vars

\* ------------------------------------- the pipeline with the AI configured
\* GEMINI_API_KEY is set (ai_service.py:20-21).  The only faults of these
\* behaviours are those of the enrichment call.
AiFileKinds == {PyUsers, JsMixed}

InitAi ==
    /\ tree \in SeqUpTo(AiFileKinds, MaxFiles)
    /\ aiModel = TRUE
    /\ RunIdle

NextAi ==
    \/ StartRun
    \/ CloneOk
    \/ ScanFilesOk
    \/ StartBatch
    \/ TaskReturns
    \/ CollectBatch
    \/ ReturnEndpoints
    \/ SaveEndpoint
    \/ SaveCommit
    \/ MarkCompleted
    \/ RequestRescan

SpecAi == InitAi /\ [][NextAi]_vars

\* ------------------------------------------------- the parser package alone
\* No scan runs; the package is called as a library.
MaxRegs == 2

\* Source files handed to parse_file.
FlaskApp ==
    [ext |-> ".py",
     content |-> <<Text("from flask import"),
                   Route("route", "", <<"GET", "POST">>, <<>>, UsersPath)>>]
DrfViews ==
    [ext |-> ".py",
     content |-> <<Text("from rest_framework"),
                   Route("api_view", "", <<"GET">>, <<>>, <<"list_users">>)>>]
FlaskDrf ==
    [ext |-> ".py",
     content |-> <<Route("api_view", "", <<"POST">>, <<>>, <<"list_users">>),
                   Route("route", "", <<>>, <<>>, ItemsPath)>>]
FastApiApp ==
    [ext |-> ".py",
     content |-> <<Route("decorator", "get", <<>>, <<>>, UsersPath)>>]
ExpressApp ==
    [ext |-> ".js",
     content |-> <<Text("express()"), Route("express", "get", <<>>, <<>>, UsersPath)>>]
PlainJs ==
    [ext |-> ".js",
     content |-> <<Route("express", "post", <<>>, <<>>, ItemsPath)>>]
GoApp ==
    [ext |-> ".go",
     content |-> <<Route("go", "GET", <<>>, <<>>, UsersPath)>>]
GoInPy ==
    [ext |-> ".py",
     content |-> <<Route("go", "GET", <<>>, <<>>, UsersPath)>>]
SpringCtl ==
    [ext |-> ".java",
     content |-> <<Route("spring_mapping", "Get", <<>>, <<"/", "api">>, UsersPath)>>]
SrcFiles == {FlaskApp, DrfViews, FlaskDrf, FastApiApp, ExpressApp, PlainJs, GoApp, GoInPy,
             SpringCtl}

\* RepositoryScanner.LANGUAGE_MAP on the extensions of SrcFiles.
LANGUAGE_MAP(ext) ==
    CASE ext = ".py" -> "python"
      [] ext = ".js" -> "javascript"
      [] ext = ".go" -> "go"
      [] ext = ".java" -> "java"
      [] OTHER -> "unknown"

\* The variables of process_repository and of its environment.
runVars_noWalk == <<tree, aiModel, dbVars, pc, found, repo, sessVars, workTree, parVars,
                    saveIdx, escaped, runs, dbAtStart, apiVars>>
runVars == <<tree, aiModel, dbVars, pc, found, repo, sessVars, workTree, parVars, saveIdx,
             escaped, runs, dbAtStart, apiVars, walkVars>>

InitRegistry ==
    /\ tree = <<>>
    /\ aiModel = FALSE
    /\ RunIdle

\* ParserRegistry.register(class()) for a parser object created by the caller.
Register(class) ==
    /\ Len(regLog) < Len(ModuleParsers) + MaxRegs
    /\ LET parser == Instance(class, Len(regLog) + 1)
       IN /\ parsers' = register(parsers, parser)
          /\ regLog' = Append(regLog, parser)
    /\ UNCHANGED <<runVars, srcFile, parseDone, detected, emitted, extracted, normOut>>

\* parse_file(file_path, content) of the package.
ParseFile(file) ==
    /\ srcFile' = file
    /\ parseDone' = TRUE
    /\ detected' = detect_framework(parsers, file.content, file.ext)
    /\ emitted' = parse_file(parsers, file)
    /\ extracted' = <<>>
    /\ UNCHANGED <<runVars, parsers, regLog, normOut>>

\* The scan orchestrator's _process_single_file on the file last given to
\* parse_file, as a candidate of a scan without AI.
ProcessSingleFile ==
    /\ parseDone
    /\ LET file_info == [path |-> 1, language |-> LANGUAGE_MAP(srcFile.ext), size |-> 200,
                         content |-> srcFile.content]
       IN extracted' = process_single_file(file_info, "off").eps
    /\ UNCHANGED <<runVars, parsers, regLog, srcFile, parseDone, detected, emitted, normOut>>

NextRegistry ==
    \/ \E class \in ParserClasses : Register(class)
    \/ \E file \in SrcFiles : ParseFile(file)
    \/ ProcessSingleFile

SpecRegistry == InitRegistry /\ [][NextRegistry]_vars

\* ------------------------------------ paths and verbs through the extractors
\* One call of normalize_path (and a second one on its result), of a parser's
\* parse_content, or of the orchestrator's _extract_endpoints_regex, on a
\* source with one route declaration.
MaxPathLen == 3

\* A path string as the sequence of its pieces: a slash, or a run of other
\* characters.
PathPieces == {"/", "u"}
RawPaths == SeqUpTo(PathPieces, MaxPathLen)

\* The path literals the regular expressions capture have a character.
DeclPaths == RawPaths \ {<<>>}

\* Verb spellings of a call or decorator name, and verb lists as written in
\* methods=[...], @api_view([...]) and RequestMethod.X.
Verbs == {"get", "Get", "GET", "head"}
VerbLists == {<<>>, <<"GET", "post">>, <<"TRACE">>}

\* The declarations: decorator or call, followed by its handler function.
NormDecls ==
    {Route("route", "", ms, <<>>, path) : ms \in VerbLists, path \in DeclPaths}
    \cup {Route(style, verb, <<>>, <<>>, path) :
            style \in {"decorator", "express", "express_route", "nest", "go"},
            verb \in Verbs, path \in DeclPaths}
    \cup {Route("spring_mapping", "Get", <<>>, base, path) :
            base \in {<<>>, <<"/", "api">>}, path \in DeclPaths}
    \cup {Route("spring_simple", "Post", <<>>, base, <<>>) : base \in {<<>>} \cup DeclPaths}
    \cup {Route("request_mapping", "", ms, <<>>, path) :
            ms \in {<<>>, <<"TRACE">>, <<"POST">>}, path \in DeclPaths}
    \cup {Route("api_view", "", ms, <<>>, <<"list_users">>) : ms \in VerbLists \ {<<>>}}
    \cup {Route("class_view", "", <<"list", "retrieve", "get">>, <<>>, <<"UserViewSet">>)}

\* Nothing has been called yet.
LibFresh ==
    /\ ~parseDone
    /\ srcFile = NoFile
    /\ normOut = <<>>

InitNorm ==
    /\ tree = <<>>
    /\ aiModel = FALSE
    /\ RunIdle

\* BaseParser.normalize_path(path).
NormalizePath(path) ==
    /\ LibFresh
    /\ normOut' = <<path, normalize_path(path)>>
    /\ UNCHANGED <<runVars, parsers, regLog, srcFile, parseDone, detected, emitted, extracted>>

\* normalize_path applied to the result of the first call.
NormalizeAgain ==
    /\ Len(normOut) = 2
    /\ normOut' = Append(normOut, normalize_path(normOut[2]))
    /\ UNCHANGED <<runVars, parsers, regLog, srcFile, parseDone, detected, emitted, extracted>>

\* parser.parse_content(content) of a registered parser.
ParseContent(parser, d) ==
    /\ LibFresh
    /\ srcFile' = [ext |-> "", content |-> <<d>>]
    /\ parseDone' = TRUE
    /\ emitted' = parse_content(parser, <<d>>)
    /\ UNCHANGED <<runVars, parsers, regLog, detected, extracted, normOut>>

\* ScanService._extract_endpoints_regex(content, file_info) for a file of
\* the extension.
ExtractRegex(ext, d) ==
    /\ LibFresh
    /\ srcFile' = [ext |-> ext, content |-> <<d>>]
    /\ extracted' = extract_endpoints_regex(
                        <<d>>, [path |-> 1, language |-> LANGUAGE_MAP(ext), size |-> 200,
                                content |-> <<d>>])
    /\ UNCHANGED <<runVars, parsers, regLog, parseDone, detected, emitted, normOut>>

NextNorm ==
    \/ \E path \in RawPaths : NormalizePath(path)
    \/ NormalizeAgain
    \/ \E i \in 1..Len(parsers), d \in NormDecls : ParseContent(parsers[i], d)
    \/ \E ext \in {".py", ".js", ".go"}, d \in NormDecls : ExtractRegex(ext, d)

SpecNorm == InitNorm /\ [][NextNorm]_vars

\* ------------------------------------------- sources with several routes
\* One call of a parser's parse_content on a source that holds up to
\* MaxDecls route declarations, of the same or of different styles.
MaxDecls == 2

OrderDecls ==
    {Route("route", "", <<>>, <<>>, UsersPath),
     Route("decorator", "get", <<>>, <<>>, ItemsPath),
     Route("express", "get", <<>>, <<>>, UsersPath),
     Route("express_route", "post", <<>>, <<>>, ItemsPath),
     Route("spring_mapping", "Get", <<>>, <<>>, UsersPath),
     Route("request_mapping", "", <<"POST">>, <<>>, ItemsPath),
     Route("api_view", "", <<"GET">>, <<>>, <<"list_users">>),
     Route("class_view", "", <<"list", "create">>, <<>>, <<"UserViewSet">>),
     Route("go", "GET", <<>>, <<>>, UsersPath),
     Route("go", "POST", <<>>, <<>>, ItemsPath),
     Route("go", "GET", <<>>, <<"/", "api">>, UsersPath),
     Route("express", "get", <<>>, <<"/", "api">>, ItemsPath)}

\* parser.parse_content(content) of a registered parser on a whole source.
ParseSource(parser, content) ==
    /\ LibFresh
    /\ srcFile' = [ext |-> "", content |-> content]
    /\ parseDone' = TRUE
    /\ emitted' = parse_content(parser, content)
    /\ UNCHANGED <<runVars, parsers, regLog, detected, extracted, normOut>>

NextOrder ==
    \E i \in 1..Len(parsers), content \in SeqUpTo(OrderDecls, MaxDecls) :
        ParseSource(parsers[i], content)

SpecOrder == InitNorm /\ [][NextOrder]_vars

\* ------------------------------------------- a directory scanned both ways
\* A repository with a Java controller in it is scanned by process_repository
\* (AI not configured) and is given to parse_directory of the parser package.
JavaItems ==
    [ftype |-> "file", language |-> "java", size |-> 200, readable |-> TRUE,
     decls |-> <<Text("@RestController"),
                 Route("spring_mapping", "Get", <<>>, <<>>, ItemsPath)>>]
JavaFileKinds == {JavaItems, PyUsers}

\* The extension of a file of the language (LANGUAGE_MAP read backwards).
extension(language) ==
    CASE language = "python" -> ".py"
      [] language = "javascript" -> ".js"
      [] language = "go" -> ".go"
      [] language = "java" -> ".java"
      [] OTHER -> ".md"

\* supported_exts of parse_directory.
supported_exts == {".py", ".js", ".ts", ".java", ".go", ".kt", ".mjs"}

\* parse_directory: parse_file for every walked file with a supported
\* extension, the results concatenated in walk order.
RECURSIVE parse_directory(_, _)
parse_directory(reg, t) ==
    IF t = <<>> THEN <<>>
    ELSE LET f == Head(t)
             file == [ext |-> extension(f.language), content |-> f.decls]
         IN (IF f.ftype = "file" /\ f.readable /\ file.ext \in supported_exts
             THEN parse_file(reg, file) ELSE <<>>)
            \o parse_directory(reg, Tail(t))

InitJava ==
    /\ tree \in SeqUpTo(JavaFileKinds, MaxFiles)
    /\ aiModel = FALSE
    /\ RunIdle

\* parse_directory(directory_path) on the repository's files.
ParseDirectory ==
    /\ ~parseDone
    /\ parseDone' = TRUE
    /\ emitted' = parse_directory(parsers, tree)
    /\ UNCHANGED <<runVars, parsers, regLog, srcFile, detected, extracted, normOut>>

NextJava ==
    \/ StartRun
    \/ CloneOk
    \/ ScanFilesOk
    \/ StartBatch
    \/ TaskReturns
    \/ CollectBatch
    \/ ReturnEndpoints
    \/ SaveEndpoint
    \/ SaveCommit
    \/ MarkCompleted
    \/ RequestRescan
    \/ ParseDirectory

SpecJava == InitJava /\ [][NextJava]_vars

\* ------------------------------------------------------ POST /github alone
\* Requests arrive for a repository whose last scan has ended; no run of
\* process_repository takes a step.
MaxQueued == 2

InitWebhook ==
    /\ tree = <<>>
    /\ aiModel = FALSE
    /\ dbEndpoints = <<StaleRow>>
    /\ \E status \in {COMPLETED, FAILED} :
          repoDb = [NoRepo EXCEPT !.scan_status = status]
    /\ pc = "done"
    /\ found = TRUE
    /\ repo = repoDb
    /\ session = "active"
    /\ sessRows = dbEndpoints
    /\ sessNew = <<>>
    /\ workTree = FALSE
    /\ loaded = {}
    /\ code_files = <<>>
    /\ batchStart = 0
    /\ gathering = FALSE
    /\ tasks = <<>>
    /\ all_endpoints = <<>>
    /\ errors = <<>>
    /\ aiCalls = 0
    /\ saveIdx = 1
    /\ escaped = FALSE
    /\ runs = 1
    /\ dbAtStart = dbEndpoints
    /\ LibIdle
    /\ WalkIdle
    /\ webhookSecret \in {"", DeploySecret}
    /\ autoScan \in BOOLEAN
    /\ webhookReq = NoRequest
    /\ httpStatus = 0
    /\ queued = 0
    /\ otherPc = "none"

\* github_webhook (api/webhooks.py:62-136) for one request.  A push for the
\* tracked repository with auto-scan enabled sets PENDING, commits and adds a
\* process_repository task.
GithubWebhook(req) ==
    LET verified == verify_github_signature(webhookSecret, req.body, req.signature)
        triggers == /\ verified
                    /\ req.body.json
                    /\ req.event = "push"
                    /\ req.body.full_name = "tracked"
                    /\ autoScan
    IN /\ webhookReq' = req
       /\ httpStatus' = IF ~verified THEN 401 ELSE IF ~req.body.json THEN 400 ELSE 200
       /\ IF triggers
          THEN /\ queued < MaxQueued
               /\ repoDb' = [repoDb EXCEPT !.scan_status = PENDING]
               /\ queued' = queued + 1
          ELSE UNCHANGED <<repoDb, queued>>
       /\ UNCHANGED <<tree, aiModel, libVars, dbEndpoints, pc, found, repo, sessVars,
                      workTree, parVars, saveIdx, escaped, runs, dbAtStart,
                      webhookSecret, autoScan, otherPc, walkVars>>

NextWebhook == \E req \in Requests : GithubWebhook(req)

SpecWebhook == InitWebhook /\ [][NextWebhook]_vars

\* ------------------------------------------- RepositoryScanner on a directory
MaxDiskFiles == 2

InitWalk ==
    /\ tree = <<>>
    /\ aiModel = FALSE
    /\ RunIdle

\* A file is written under the root, as setup_dummy_repo does.
WriteFile(f) ==
    /\ Cardinality(disk) < MaxDiskFiles
    /\ f \notin disk
    /\ disk' = disk \cup {f}
    /\ results' = <<>>
    /\ walkDone' = FALSE
    /\ UNCHANGED <<runVars_noWalk, libVars>>

\* scanner.scan_repository(repo_path) returns.
WalkRepository ==
    /\ ~walkDone
    /\ results' = os_walk(disk, <<>>)
    /\ walkDone' = TRUE
    /\ UNCHANGED <<disk, runVars_noWalk, libVars>>

NextWalk ==
    \/ \E f \in DiskFiles : WriteFile(f)
    \/ WalkRepository

SpecWalk == InitWalk /\ [][NextWalk]_vars

\* ------------------------------------------------ runs on one event loop
\* process_repository is a coroutine that BackgroundTasks awaits on the event
\* loop of the one server process (main.py:110-117).  Another coroutine runs
\* only while this one waits in an await: before its first statement
\* ("idle"), in the commit of line 105 ("clone"), in asyncio.gather
\* ("process"), in the statements of _save_endpoints_bulk ("save"), in the
\* commit of line 157 ("mark") and after it returned ("done").
\* clone_repository, scan_repository and _get_code_files have no await that
\* waits, so the run does not wait at "scan".
\* Variant of suspension_points: the clone is awaited in a worker thread.
suspension_points_threaded == {"idle", "clone", "scan", "process", "save", "mark", "done"}

suspension_points == {"idle", "clone", "process", "save", "mark", "done"}

\* A repository whose one source file declares no route.  The run that
\* create_repository scheduled is the run of pc; the runs that rescans and
\* pushes add are the run of otherPc, which detects no endpoint either.
InitConc ==
    /\ tree = <<NoRoutes>>
    /\ aiModel = FALSE
    /\ RunIdle

\* rescan_repository (api/repositories.py:127-148): PENDING is committed and a
\* process_repository task is added, whatever the status was.
RescanRepository ==
    /\ pc \in suspension_points
    /\ queued < MaxQueued
    /\ repoDb' = [repoDb EXCEPT !.scan_status = PENDING]
    /\ queued' = queued + 1
    /\ UNCHANGED <<tree, aiModel, libVars, walkVars, dbEndpoints, pc, found, repo,
                   sessVars, workTree, parVars, saveIdx, escaped, runs, dbAtStart,
                   webhookSecret, autoScan, webhookReq, httpStatus, otherPc>>

\* A push event of GitHub for the repository, signed with the secret.
SignedPush ==
    [body |-> Body(TRUE, "tracked"),
     signature |-> Signature("sha256=", HMAC(DeploySecret, Body(TRUE, "tracked"))),
     event |-> "push"]

PushWebhook ==
    /\ pc \in suspension_points
    /\ GithubWebhook(SignedPush)

\* A task added by a handler starts: lines 89-105 of process_repository.
OtherStart ==
    /\ pc \in suspension_points
    /\ otherPc = "none"
    /\ queued > 0
    /\ queued' = queued - 1
    /\ repoDb' = [repoDb EXCEPT !.scan_status = SCANNING]
    /\ otherPc' = "clone"
    /\ UNCHANGED <<tree, aiModel, libVars, walkVars, dbEndpoints, pc, found, repo,
                   sessVars, workTree, parVars, saveIdx, escaped, runs, dbAtStart,
                   webhookSecret, autoScan, webhookReq, httpStatus>>

\* clone_repository deletes the path when it exists and clones into it
\* (git_service.py:57-62); enumeration and loading follow up to the gather.
OtherCloneOk ==
    /\ pc \in suspension_points
    /\ otherPc = "clone"
    /\ workTree' = TRUE
    /\ otherPc' = "process"
    /\ UNCHANGED <<tree, aiModel, libVars, walkVars, dbVars, pc, found, repo,
                   sessVars, parVars, saveIdx, escaped, runs, dbAtStart,
                   webhookSecret, autoScan, webhookReq, httpStatus, queued>>

\* The clone raises after the path was deleted: _fail_scan and the finally
\* block.
OtherCloneFail ==
    /\ pc \in suspension_points
    /\ otherPc = "clone"
    /\ workTree' = FALSE
    /\ repoDb' = [repoDb EXCEPT !.scan_status = FAILED,
                                !.scan_error_message = "Clone failed"]
    /\ otherPc' = "none"
    /\ UNCHANGED <<tree, aiModel, libVars, walkVars, dbEndpoints, pc, found, repo,
                   sessVars, parVars, saveIdx, escaped, runs, dbAtStart,
                   webhookSecret, autoScan, webhookReq, httpStatus, queued>>

\* The gather returned no endpoint: lines 154-157 and the finally block.
OtherComplete ==
    /\ pc \in suspension_points
    /\ otherPc = "process"
    /\ repoDb' = [scan_status |-> COMPLETED, api_count |-> 0,
                  scan_error_message |-> "none"]
    /\ workTree' = FALSE
    /\ otherPc' = "none"
    /\ UNCHANGED <<tree, aiModel, libVars, walkVars, dbEndpoints, pc, found, repo,
                   sessVars, parVars, saveIdx, escaped, runs, dbAtStart,
                   webhookSecret, autoScan, webhookReq, httpStatus, queued>>

NextConc ==
    \/ StartRun
    \/ CloneOk
    \/ CloneFail
    \/ ScanFilesOk
    \/ StartBatch
    \/ TaskReturns
    \/ CollectBatch
    \/ ReturnEndpoints
    \/ MarkCompleted
    \/ RescanRepository
    \/ PushWebhook
    \/ OtherStart
    \/ OtherCloneOk
    \/ OtherCloneFail
    \/ OtherComplete

SpecConc == InitConc /\ [][NextConc]_vars

\* ------------------------------------------- two scans of one repository
\* The repository is scanned, a rescan is requested after the scan has ended,
\* and it is scanned again; its files stay as they are, the clone succeeds,
\* no task raises and the database accepts every row.
TwiceKinds == {PyUsers, JsMixed, Unreadable}

InitTwice ==
    /\ tree \in SeqUpTo(TwiceKinds, MaxFiles)
    /\ aiModel = FALSE
    /\ RunIdle

NextTwice ==
    \/ StartRun
    \/ CloneOk
    \/ ScanFilesOk
    \/ StartBatch
    \/ TaskReturns
    \/ CollectBatch
    \/ ReturnEndpoints
    \/ SaveEndpoint
    \/ SaveCommit
    \/ MarkCompleted
    \/ RequestRescan

SpecTwice == InitTwice /\ [][NextTwice]_vars

\* ================================================================= claims
Keys(table) == {Key(table[i]) : i \in 1..Len(table)}
DocKeys(docs) == {DocKey(docs[i]) : i \in 1..Len(docs)}

\* The position in docs of the last document with key k.
LastIndex(docs, k) ==
    CHOOSE i \in 1..Len(docs) :
        /\ DocKey(docs[i]) = k
        /\ \A j \in (i + 1)..Len(docs) : DocKey(docs[j]) # k

\* A stored row carries the mutable fields of doc.
HasFieldsOf(row, doc) ==
    /\ row.summary = doc.summary
    /\ row.description = doc.description
    /\ row.tags = doc.tags
    /\ row.file_path = doc.file_path

\* C1: the endpoint rows persisted for the repository hold at most one row
\* per (path, method), whatever duplicates the files of a scan yield.
C1_OneRecordPerKey ==
    \A k \in Keys(dbEndpoints) : Count(dbEndpoints, k) <= 1

\* The results of the tasks 1..n that returned, in file order.
RECURSIVE OkResults(_, _)
OkResults(ts, n) ==
    IF n = 0 THEN <<>>
    ELSE OkResults(ts, n - 1) \o (IF ts[n].st = "ok" THEN ts[n].eps ELSE <<>>)

\* C2: a file whose task raised contributes nothing, every other file of the
\* same batch and of the other batches contributes all it returned, and the
\* batch loop always runs to its return.
C2_FaultIsolation ==
    /\ pc \in {"process", "save", "mark"}
    /\ (pc = "process" /\ ~gathering) =>
           all_endpoints = OkResults(tasks, Min(batchStart, Len(code_files)))
    /\ pc \in {"save", "mark"} =>
           /\ DOMAIN tasks = 1..Len(code_files)
           /\ all_endpoints = OkResults(tasks, Len(code_files))
           /\ \A j \in 1..Len(code_files) :
                 tasks[j].st = "exc" => \A i \in 1..Len(all_endpoints) :
                                            all_endpoints[i].file_path # j

\* C2 witness: the loop has returned; a task of the first batch raised, another
\* task of that batch and a task of the second batch delivered endpoints.
C2_Witness ==
    /\ pc = "save"
    /\ Len(code_files) > BATCH_SIZE
    /\ \E j \in 1..BATCH_SIZE, i \in 1..BATCH_SIZE, l \in (BATCH_SIZE + 1)..Len(code_files) :
          /\ tasks[j].st = "exc"
          /\ tasks[i].st = "ok" /\ tasks[i].eps # <<>>
          /\ tasks[l].st = "ok" /\ tasks[l].eps # <<>>
          /\ \E a, b \in 1..Len(all_endpoints) :
                all_endpoints[a].file_path = i /\ all_endpoints[b].file_path = l

\* C3: a run that found its repository and marked it SCANNING has left the
\* stored status COMPLETED or FAILED when it ends.
C3_EndsCompletedOrFailed ==
    (pc = "done" /\ found) => repoDb.scan_status \in {COMPLETED, FAILED}

\* C4: each iteration of _save_endpoints_bulk looks the endpoint up by key; with
\* one stored row it updates that row in place and adds nothing, with none it
\* adds exactly one new row of that key; after the commit a key that had one
\* row still has one.
C4_UpsertByKey ==
    [][/\ (pc = "save" /\ saveIdx' = saveIdx + 1) =>
             LET doc == all_endpoints[saveIdx]
                 k == DocKey(doc)
             IN /\ Count(dbEndpoints, k) = 1 =>
                      /\ sessNew' = sessNew
                      /\ Len(sessRows') = Len(sessRows)
                      /\ \A i \in 1..Len(sessRows) :
                            IF Key(sessRows[i]) = k
                            THEN Key(sessRows'[i]) = k /\ HasFieldsOf(sessRows'[i], doc)
                            ELSE sessRows'[i] = sessRows[i]
                /\ Count(dbEndpoints, k) = 0 =>
                      /\ sessRows' = sessRows
                      /\ Len(sessNew') = Len(sessNew) + 1
                      /\ SubSeq(sessNew', 1, Len(sessNew)) = sessNew
                      /\ Key(sessNew'[Len(sessNew')]) = k
                      /\ HasFieldsOf(sessNew'[Len(sessNew')], doc)
       /\ (pc = "save" /\ pc' = "mark") =>
             \A k \in DocKeys(all_endpoints) :
                 Count(dbEndpoints, k) = 1 => Count(dbEndpoints', k) = 1
      ]_vars

\* C4 witness: a finished scan that updated a stored row in place and created
\* a new one.
C4_Witness ==
    /\ pc = "done"
    /\ repoDb.scan_status = COMPLETED
    /\ Len(dbEndpoints) > Len(dbAtStart)
    /\ \E i \in 1..Len(dbAtStart) :
          /\ dbEndpoints[i] # dbAtStart[i]
          /\ Key(dbEndpoints[i]) = Key(dbAtStart[i])
          /\ Count(dbEndpoints, Key(dbAtStart[i])) = 1

\* C5: no task of a batch is started while a task of an earlier batch is in
\* flight, and all_endpoints changes only when no task is in flight.
C5_BatchesSequential ==
    [][/\ \A j \in Running' :
             (j \notin Running) => Running = {}
       /\ all_endpoints' # all_endpoints => (Running = {} /\ Running' = {})
      ]_vars

\* C5 witness: tasks of the second batch are in flight after the first batch
\* was collected.
C5_Witness ==
    /\ pc = "process"
    /\ batchStart = BATCH_SIZE
    /\ Running # {}
    /\ all_endpoints # <<>>
    /\ \A j \in 1..BATCH_SIZE : tasks[j].st # "running"

\* C6: at most BATCH_SIZE per-file tasks are in flight at any moment, for any
\* number of candidate files.
C6_BoundedInFlight ==
    Cardinality(Running) <= BATCH_SIZE

\* C6 witness: a full batch in flight while more files than one batch wait.
C6_Witness ==
    /\ Len(code_files) > BATCH_SIZE
    /\ Cardinality(Running) = BATCH_SIZE

\* C7: with the scan root in place, a failure confined to one file never ends
\* the scan FAILED.
C7_FileFailureNotFatal ==
    [][(pc = "scan" /\ workTree) =>
           ~(pc' = "done" /\ repoDb'.scan_status = FAILED)]_vars

\* C8: when the scan root does not exist the run ends FAILED with an error
\* message, never COMPLETED.
C8_MissingRootFails ==
    [][(pc = "scan" /\ ~workTree /\ pc' # pc) =>
           /\ pc' = "done"
           /\ repo'.scan_status = FAILED
           /\ repoDb'.scan_status = FAILED
           /\ repoDb'.scan_error_message # "none"]_vars

\* C8 witness: a run over a tree without any unreadable entry ended FAILED
\* with the system error message after its root had gone.
C8_Witness ==
    /\ pc = "done"
    /\ ~escaped
    /\ tree # <<>>
    /\ \A i \in 1..Len(tree) : tree[i].ftype = "file"
    /\ repoDb.scan_status = FAILED
    /\ repoDb.scan_error_message = "System error"

\* C9: after a completed scan every stored row of a key detected by the scan
\* carries the fields of the last detection of that key.
C9_LastWriteWins ==
    (pc = "done" /\ repoDb.scan_status = COMPLETED) =>
        \A i \in 1..Len(dbEndpoints) :
            Key(dbEndpoints[i]) \in DocKeys(all_endpoints) =>
                HasFieldsOf(dbEndpoints[i],
                            all_endpoints[LastIndex(all_endpoints, Key(dbEndpoints[i]))])

\* C10: no step removes a stored endpoint row; every row keeps its place and
\* its (path, method).
C10_NeverDeletes ==
    [][\A i \in 1..Len(dbEndpoints) :
           /\ i <= Len(dbEndpoints')
           /\ Key(dbEndpoints'[i]) = Key(dbEndpoints[i])]_vars

\* C10 witness: a completed scan stored new rows and the row of an endpoint it
\* did not detect is still there.
C10_Witness ==
    /\ pc = "done"
    /\ repoDb.scan_status = COMPLETED
    /\ Len(dbEndpoints) > Len(dbAtStart)
    /\ Key(StaleRow) \notin DocKeys(all_endpoints)
    /\ dbEndpoints[1] = StaleRow

\* The documents of all_endpoints that come from the task of file j.
DocsOf(j) == SelectSeq(all_endpoints, LAMBDA doc : doc.file_path = j)

\* C11: when the enrichment call of a file raises or returns nothing, the
\* task of the file still ends normally with the endpoints of the pattern
\* extraction, they reach the aggregate and the save loop, the run ends
\* COMPLETED counting them, and the stored row of each such endpoint whose key
\* the scan detected once and the table held at most once carries the fields
\* of the extraction.
C11_EnrichmentFailureKeepsEndpoints ==
    /\ \A j \in DOMAIN tasks :
          (tasks[j].st # "running" /\ tasks[j].ai \in AiFailed) =>
              /\ tasks[j].st = "ok"
              /\ tasks[j].eps = extract_endpoints_regex(code_files[j].content, code_files[j])
    /\ pc \in {"save", "mark", "done"} =>
          \A j \in DOMAIN tasks : tasks[j].ai \in AiFailed => DocsOf(j) = tasks[j].eps
    /\ pc = "done" =>
          /\ repoDb.scan_status = COMPLETED
          /\ repoDb.api_count = Len(all_endpoints)
          /\ \A j \in DOMAIN tasks : tasks[j].ai \in AiFailed =>
                \A i \in 1..Len(tasks[j].eps) :
                    LET doc == tasks[j].eps[i]
                        k == DocKey(doc)
                    IN /\ Count(dbEndpoints, k) >= 1
                       /\ (Count(dbAtStart, k) <= 1 /\ Count(all_endpoints, k) = 1) =>
                              \E r \in 1..Len(dbEndpoints) :
                                  /\ Key(dbEndpoints[r]) = k
                                  /\ HasFieldsOf(dbEndpoints[r], doc)
                                  /\ dbEndpoints[r].auth_required = doc.auth_required

\* C11 witness: a completed run in which the enrichment call raised for one
\* file and returned nothing for another, and a row stored by the run carries
\* the extraction's fields of an endpoint of such a file.
C11_Witness ==
    /\ pc = "done"
    /\ repoDb.scan_status = COMPLETED
    /\ \E j, l \in DOMAIN tasks :
          /\ tasks[j].ai = "raised" /\ tasks[j].eps # <<>>
          /\ tasks[l].ai = "none" /\ tasks[l].eps # <<>>
    /\ \E j \in DOMAIN tasks, r \in 1..Len(dbEndpoints) :
          /\ tasks[j].ai \in AiFailed
          /\ tasks[j].eps # <<>>
          /\ r > Len(dbAtStart)
          /\ Key(dbEndpoints[r]) = DocKey(tasks[j].eps[1])
          /\ HasFieldsOf(dbEndpoints[r], tasks[j].eps[1])

\* C12: in a scan with the enrichment configured the number of enrichment
\* calls equals the number of endpoints handed to the upsert.
C12_OneEnrichmentPerEndpoint ==
    (aiModel /\ pc \in {"save", "mark"}) => aiCalls = Len(all_endpoints)

\* The candidate made of entry i of the tree, if there is one.
CandidateOf(i) == {j \in 1..Len(code_files) : code_files[j].path = i}

\* C13: once the candidate filter has run, every candidate has a size within
\* [MIN_FILE_SIZE, MAX_FILE_SIZE], and a file outside that range, whatever
\* its content, is no candidate and its content was not read by the filter.
C13_SizeGate ==
    pc = "process" =>
        /\ \A j \in 1..Len(code_files) :
              MIN_FILE_SIZE <= code_files[j].size /\ code_files[j].size <= MAX_FILE_SIZE
        /\ \A i \in 1..Len(tree) :
              (tree[i].size < MIN_FILE_SIZE \/ tree[i].size > MAX_FILE_SIZE) =>
                  (CandidateOf(i) = {} /\ i \notin loaded)

\* C13 witness: the filter has run over a 0-byte file, a 500 KB file that
\* declares a route and a file of exactly MIN_FILE_SIZE bytes; only the last
\* one was read and became a candidate.
C13_Witness ==
    /\ pc = "process"
    /\ Len(code_files) = 1
    /\ code_files[1].size = MIN_FILE_SIZE
    /\ loaded = {code_files[1].path}
    /\ \E i, j \in 1..Len(tree) :
          /\ tree[i].size = 0
          /\ tree[j].size = 500000 /\ RouteDecls(tree[j].decls) # <<>>

\* C14: every file handed to batch processing has a content that matches at
\* least one pre-filter pattern.
C14_PrefilterGate ==
    \A j \in 1..Len(code_files) : is_likely_api_file(code_files[j].content)

\* The framework names passed to register so far.
RegisteredNames == {regLog[i].FRAMEWORK_NAME : i \in 1..Len(regLog)}

\* The calls of register made with a parser of the given name.
CallsFor(name) == {i \in 1..Len(regLog) : regLog[i].FRAMEWORK_NAME = name}

\* The parser of the most recent call of register under the name.
LastRegistered(name) == regLog[CHOOSE i \in CallsFor(name) : \A j \in CallsFor(name) : j <= i]

\* The first call of register under the name.
FirstCall(name) == CHOOSE i \in CallsFor(name) : \A j \in CallsFor(name) : i <= j

MatchingNames(file) ==
    {name \in RegisteredNames :
        /\ file.ext \in LastRegistered(name).SUPPORTED_EXTENSIONS
        /\ parser_detect_framework(LastRegistered(name), file.content)}

\* C16: every call returns the matching parser whose framework name was
\* registered first (a later registration under a name takes the place of
\* the parser it overrides), and None when no parser matches; the result is
\* a function of the registration sequence and of (content, ext).
C16_FirstMatchInRegistrationOrder ==
    [][(\E file \in SrcFiles : ParseFile(file)) =>
          detected' =
              IF MatchingNames(srcFile)' = {} THEN <<>>
              ELSE <<LastRegistered(CHOOSE n \in MatchingNames(srcFile) :
                         \A m \in MatchingNames(srcFile) : FirstCall(n) <= FirstCall(m))>>']_vars

\* C16 witness: two registered parsers match the parsed file, and the one
\* returned was registered after the package import, over the parser of the
\* import with the same name.
C16_Witness ==
    /\ parseDone
    /\ Cardinality(MatchingNames(srcFile)) >= 2
    /\ detected # <<>>
    /\ detected[1].inst > Len(ModuleParsers)

\* C17: after any sequence of register calls the registry holds exactly one
\* parser for every name registered so far and none for any other name, and
\* get_parser returns the parser of the most recent call under the name.
C17_LastRegistrationWins ==
    /\ \A name \in RegisteredNames :
          /\ Cardinality(Slot(parsers, name)) = 1
          /\ get_parser(parsers, name) = <<LastRegistered(name)>>
    /\ Len(get_all_parsers(parsers)) = Cardinality(RegisteredNames)

\* C17 witness: a name has been registered twice, each time with another
\* parser object, and the registry holds the second one.
C17_Witness ==
    \E name \in RegisteredNames :
        /\ Cardinality(CallsFor(name)) >= 2
        /\ regLog[FirstCall(name)] # LastRegistered(name)
        /\ get_parser(parsers, name) = <<LastRegistered(name)>>

\* C18: normalize_path applied to its own result returns that result, for
\* every path, the empty one and those with several leading or trailing
\* slashes included.
C18_NormalizeIdempotent ==
    Len(normOut) = 3 => normOut[3] = normOut[2]

\* The path begins with exactly one slash and ends with one only if it is "/".
WellFormed(path) ==
    /\ path # <<>>
    /\ path[1] = "/"
    /\ Len(path) > 1 => path[2] # "/"
    /\ path[Len(path)] = "/" => path = <<"/">>

\* C19: every endpoint a framework parser emits and every endpoint the
\* orchestrator's own extraction produces has a path that begins with exactly
\* one slash and does not end with a slash unless it is "/".
C19_PathsNormalized ==
    /\ \A i \in 1..Len(emitted) : WellFormed(emitted[i].path)
    /\ \A i \in 1..Len(extracted) : WellFormed(extracted[i].path)

\* C20: every endpoint a parser emits, and every endpoint a scan extracts for
\* its records, has its method among the members of HTTPMethod, whatever verb
\* strings the source holds.
C20_MethodsInVerbSet ==
    /\ \A i \in 1..Len(emitted) : emitted[i].method \in HTTPMethod
    /\ \A i \in 1..Len(extracted) : extracted[i].method \in HTTPMethod

\* C21: parse_content returns its endpoints in source order: the line
\* numbers of the returned list never decrease, also for a source that mixes
\* declarations matched by different patterns of the parser.
C21_SourceOrder ==
    \A i \in 1..Len(emitted), j \in 1..Len(emitted) :
        i < j => emitted[i].line_number <= emitted[j].line_number

\* The declarations of the parsed source that start at the line.
DeclsAt(line) ==
    {k \in 1..Len(srcFile.content) : line_of(srcFile.content, k) = line}

\* C22: every endpoint the Express and the Go parser emit for a route that
\* is registered under a group or mount prefix has the prefix followed by the
\* route's literal path as its path.
C22_GroupPrefixPrepended ==
    \A i \in 1..Len(emitted) :
        emitted[i].framework \in {"express", "go_gin"} =>
            \A k \in DeclsAt(emitted[i].line_number) :
                srcFile.content[k].base # <<>> =>
                    emitted[i].path = srcFile.content[k].base \o srcFile.content[k].path

\* The list holds exactly one endpoint, GET /items.
OneGetItems(eps) ==
    /\ Len(eps) = 1
    /\ eps[1].method = "GET"
    /\ eps[1].path = ItemsPath

\* The part of C23 that is about parse_directory.
ParsedJavaDirectory ==
    (tree = <<JavaItems>> /\ parseDone) => OneGetItems(emitted)

\* The part of C23 that is about a scan by process_repository.
ScannedJavaDirectory ==
    (tree = <<JavaItems>> /\ pc = "done" /\ repoDb.scan_status = COMPLETED)
        => OneGetItems(all_endpoints)

\* C23: scanning a directory whose only file is a Java controller class with
\* @GetMapping("/items") yields exactly one endpoint, GET /items, from
\* parse_directory and from a scan of the repository alike.  (The endpoint's
\* parameters are outside the model; the declaration has none.)
C23_JavaControllerOneEndpoint ==
    /\ ParsedJavaDirectory
    /\ ScannedJavaDirectory

\* The request carries the HMAC-SHA256 of its body under the deployment's
\* secret.
ValidSignature(req) ==
    req.signature = Signature("sha256=", HMAC(DeploySecret, req.body))

\* C24: a webhook request whose signature is not the valid HMAC-SHA256 of its
\* body is answered 401, changes no scan_status and adds no scan, whatever
\* its event type.
C24_InvalidSignatureRejected ==
    [][\A req \in Requests :
          (GithubWebhook(req) /\ ~ValidSignature(req)) =>
              /\ httpStatus' = 401
              /\ repoDb' = repoDb
              /\ queued' = queued]_vars

\* The directory names scan_repository takes out of dirs (scanner.py:80-81):
\* the names of IGNORED_DIRS and the names that start with a dot.
IgnoredDirectory(d) == d \in IGNORED_DIRS \/ startswith_dot(d)

\* The files scan_repository is to return: not under an ignored directory,
\* not of an ignored extension, not hidden.
Expected(f) ==
    /\ \A i \in 1..Len(f.dirs) : ~IgnoredDirectory(f.dirs[i])
    /\ lower(suffix(f.name)) \notin IGNORED_EXTENSIONS
    /\ ~startswith_dot(f.name)

OtherTreeStep == OtherCloneOk \/ OtherCloneFail \/ OtherComplete

\* C26: while a run is between its successful clone and the end of file
\* loading, the working tree stays and no other run of the repository
\* deletes or re-creates it, also after a rescan requested during SCANNING.
C26_TreeKeptWhileLoading ==
    [][pc = "scan" => (workTree' /\ ~OtherTreeStep)]_vars

\* C26 witness: a run has cloned and not yet loaded while a second run,
\* started by a rescan requested during SCANNING, is about to clone.
C26_Witness ==
    /\ pc = "scan"
    /\ workTree
    /\ otherPc = "clone"

\* C27: whenever scan_status is COMPLETED or FAILED, no run is between its
\* SCANNING commit and its final status commit.
C27_TerminalStatusMeansNoRun ==
    repoDb.scan_status \in {COMPLETED, FAILED} =>
        /\ pc \notin {"clone", "scan", "process", "save", "mark"}
        /\ otherPc \notin {"clone", "process"}

\* C28: when a scan has ended COMPLETED, the stored api_count is the number
\* of distinct (path, method) pairs among the endpoints the scan detected.
C28_ApiCountIsDistinctKeys ==
    (pc = "done" /\ found /\ repoDb.scan_status = COMPLETED) =>
        repoDb.api_count = Cardinality(Keys(all_endpoints))

\* C29: a run that found its repository record deletes the cloned working
\* tree on every exit path; the run deletes nowhere but in its finally block,
\* so once it has returned the tree is gone.
C29_TreeDeletedOnEveryExit ==
    (pc = "done" /\ found) => ~workTree

\* C30: a second run of process_repository on the unchanged repository leaves
\* the stored endpoint records as the first run left them: the same records,
\* the same number of records per (path, method).
C30_SecondRunIdempotent ==
    (runs >= 2 /\ pc = "done") =>
        /\ dbEndpoints = dbAtStart
        /\ \A k \in Keys(dbAtStart) : Count(dbEndpoints, k) = Count(dbAtStart, k)

\* C30 witness: the second run has ended COMPLETED on a table in which the
\* first run stored two rows of one key and a row of another key.
C30_Witness ==
    /\ runs = 2
    /\ pc = "done"
    /\ repoDb.scan_status = COMPLETED
    /\ all_endpoints # <<>>
    /\ \E k1, k2 \in Keys(dbEndpoints) :
          /\ Count(dbEndpoints, k1) = 2
          /\ Count(dbEndpoints, k2) = 1
          /\ k2 \in Keys(all_endpoints)

====
